---- MODULE Spec2Model ----
(***************************************************************************)
(* A model of make_animation (src/utils.py), the one stateful routine of   *)
(* the repository: it fixes the axis limits from the second pendulum's     *)
(* coordinates, derives the sampling stride `skip` from len(t), fps and    *)
(* n_seconds, and hands the frame callback `animate` to FuncAnimation,     *)
(* which calls it for frame_number = 0 .. n_frames-1 while saving.         *)
(*                                                                         *)
(* Arrays whose values the code never inspects (t, x1, y1) are kept by     *)
(* their lengths; x2 and y2 are sequences, since np.min/np.max read them.  *)
(* Coordinates, paddings and limits are fixed-point numbers counted in     *)
(* tenths, so that 0.1 * abs(x_min) is exact on data that are multiples of *)
(* ten tenths.  An optional argument is <<>> for None and <<v>> (or        *)
(* <<lo, hi>> for limits) when the caller passes a value.                  *)
(***************************************************************************)
EXTENDS Integers, Sequences, FiniteSets

\* Bounds of the explored inputs.
MaxLen == 4
MaxFps == 3
MaxSeconds == 2
MaxDecay == 2
MaxAxisLen == 2

VARIABLES
    t_len, x1_len, y1_len,      \* len(t), len(x1), len(y1)
    x2, y2,                     \* coordinates of the second pendulum
    fps, n_seconds, decay_time, \* arguments
    xpad, ypad, xlim, ylim,     \* optional arguments
    pc,                         \* position inside make_animation
    xlimits, ylimits,           \* limits last handed to plt.xlim / plt.ylim
    total_frames, n_frames, skip,
    frame_number,               \* next frame FuncAnimation will ask for
    i,                          \* local i of the last call of animate
    scatter1, scatter2,         \* sample indices held by the two traces
    calls,                      \* frame numbers animate was called with
    emitted,                    \* sample indices of the frames grabbed
    n_writes,                   \* times an artifact was written to save_path
    error                       \* exception that ended the call, or "none"

vars == <<t_len, x1_len, y1_len, x2, y2, fps, n_seconds, decay_time,
          xpad, ypad, xlim, ylim, pc, xlimits, ylimits,
          total_frames, n_frames, skip, frame_number, i,
          scatter1, scatter2, calls, emitted, n_writes, error>>

inputs == <<t_len, x1_len, y1_len, x2, y2, fps, n_seconds, decay_time,
            xpad, ypad, xlim, ylim>>

frameState == <<frame_number, i, scatter1, scatter2, calls, emitted>>

----------------------------------------------------------------------------
\* Python and numpy primitives the routine relies on.

None == <<>>

Abs(v) == IF v < 0 THEN -v ELSE v

PyMax(a, b) == IF a >= b THEN a ELSE b

PyMin(a, b) == IF a <= b THEN a ELSE b

RECURSIVE NpMin(_)
NpMin(s) == IF Len(s) = 1 THEN s[1] ELSE PyMin(s[1], NpMin(Tail(s)))

RECURSIVE NpMax(_)
NpMax(s) == IF Len(s) = 1 THEN s[1] ELSE PyMax(s[1], NpMax(Tail(s)))

\* Truth value of an optional number: None and 0 are both false.
Truthy(opt) == opt # None /\ opt[1] # 0

\* Truth value of an optional pair of limits: a non-empty tuple is true.
TruthyLimits(opt) == opt # None

\* One bound of a slice over an array of length n (positive step):
\* a negative bound counts from the end, and the result is clamped to 0..n.
SliceBound(n, b) == IF b < 0 THEN PyMax(0, b + n) ELSE PyMin(b, n)

\* Indices selected by a[lo:hi:step] on an array of length n, step > 0.
SliceIndices(n, lo, hi, step) ==
    LET a == SliceBound(n, lo)
        b == SliceBound(n, hi)
        cnt == IF b > a THEN (b - a + step - 1) \div step ELSE 0
    IN [j \in 1..cnt |-> a + (j - 1) * step]

\* int(a / b) for a >= 0 and b > 0: true division, then truncation.
IntOfQuotient(a, b) == a \div b

----------------------------------------------------------------------------
\* Axis limits (lines 96-112).

\* 0.1 * abs(m), in tenths; exact when m is a multiple of ten tenths.
DefaultPad(m) == Abs(m) \div 10

\* The padding in force after the two `if not xpad` / `if not ypad` tests.
EffectivePad(pad, m) == IF ~Truthy(pad) THEN DefaultPad(m) ELSE pad[1]

\* Arguments of the first plt.xlim / plt.ylim call.
AutoLimits(data, pad) ==
    LET lo == NpMin(data)
        hi == NpMax(data)
        p  == EffectivePad(pad, lo)
    IN <<lo - p, hi + p>>

FinalLimitsIgnoringLim(auto, lim) == auto

\* Limits in force after the optional second plt.xlim / plt.ylim call.
FinalLimits(auto, lim) == IF TruthyLimits(lim) THEN lim ELSE auto

----------------------------------------------------------------------------
\* Frame arithmetic (lines 119-146).

Stride(n_total, n_shown) == IntOfQuotient(n_total, n_shown)

FrameIndexNextSample(k, s) == k * s + 1

\* i = frame_number * skip
FrameIndex(k, s) == k * s

TraceLengthOneMore(d, s) == (d + 1) * s

\* trace_length = decay_time * skip
TraceLength(d, s) == d * s

TraceStartUnclamped(idx, tl) == idx - tl

\* start = max(0, i - trace_length)
TraceStart(idx, tl) == PyMax(0, idx - tl)

\* Indices of x[start:i:skip] for an array of length n.
Trace(n, idx, d, s) == SliceIndices(n, TraceStart(idx, TraceLength(d, s)), idx, s)

\* Some subscript [i] of lines 139-140 is out of range.
IndexFault(idx) ==
    idx >= x1_len \/ idx >= y1_len \/ idx >= Len(x2) \/ idx >= Len(y2)

----------------------------------------------------------------------------
\* Input families.

Zeros(n) == [j \in 1..n |-> 0]

Lengths == 0..MaxLen

AxisValues == {-20, 0, 10}

AxisData == UNION {[1..n -> AxisValues] : n \in 0..MaxAxisLen}

PadArgs == {None, <<0>>, <<5>>}

LimArgs == {None, <<-30, 30>>, <<0, 10>>}

Fresh ==
    /\ pc = "limits"
    /\ xlimits = None /\ ylimits = None
    /\ total_frames = 0 /\ n_frames = 0 /\ skip = 0
    /\ frame_number = 0 /\ i = 0
    /\ scatter1 = <<>> /\ scatter2 = <<>>
    /\ calls = <<>> /\ emitted = <<>>
    /\ n_writes = 0
    /\ error = "none"

\* Calls that vary the series lengths and the frame parameters and leave the
\* optional axis arguments at their defaults.
Init ==
    /\ t_len \in Lengths /\ x1_len \in Lengths /\ y1_len \in Lengths
    /\ x2 \in {Zeros(n) : n \in Lengths}
    /\ y2 \in {Zeros(n) : n \in Lengths}
    /\ fps \in 1..MaxFps
    /\ n_seconds \in 0..MaxSeconds
    /\ decay_time \in 0..MaxDecay
    /\ xpad = None /\ ypad = None /\ xlim = None /\ ylim = None
    /\ Fresh

\* Calls that vary the second pendulum's coordinates and the axis arguments.
InitAxes ==
    /\ x2 \in AxisData /\ y2 \in AxisData
    /\ t_len = Len(x2) /\ x1_len = Len(x2) /\ y1_len = Len(x2)
    /\ fps = 1 /\ n_seconds = 1 /\ decay_time = 0
    /\ xpad \in PadArgs /\ ypad \in PadArgs
    /\ xlim \in LimArgs /\ ylim \in LimArgs
    /\ Fresh

----------------------------------------------------------------------------
\* Steps of make_animation.

\* Lines 85-112 when np.min / np.max succeed.
SetLimits ==
    /\ pc = "limits"
    /\ Len(x2) > 0 /\ Len(y2) > 0
    /\ xlimits' = FinalLimits(AutoLimits(x2, xpad), xlim)
    /\ ylimits' = FinalLimits(AutoLimits(y2, ypad), ylim)
    /\ pc' = "stride"
    /\ UNCHANGED <<inputs, total_frames, n_frames, skip, frameState, n_writes, error>>

\* Line 96 on an empty x2 or y2: a reduction of a zero-size array raises.
SetLimitsFails ==
    /\ pc = "limits"
    /\ Len(x2) = 0 \/ Len(y2) = 0
    /\ pc' = "failed"
    /\ error' = "ValueError"
    /\ UNCHANGED <<inputs, xlimits, ylimits, total_frames, n_frames, skip,
                   frameState, n_writes>>

\* Lines 119-127 with a non-zero divisor.
ComputeSkip ==
    /\ pc = "stride"
    /\ fps * n_seconds # 0
    /\ total_frames' = t_len
    /\ n_frames' = fps * n_seconds
    /\ skip' = Stride(t_len, fps * n_seconds)
    /\ pc' = "animating"
    /\ UNCHANGED <<inputs, xlimits, ylimits, frameState, n_writes, error>>

\* Line 127 with n_frames = 0.
ComputeSkipFails ==
    /\ pc = "stride"
    /\ fps * n_seconds = 0
    /\ total_frames' = t_len
    /\ n_frames' = 0
    /\ pc' = "failed"
    /\ error' = "ZeroDivisionError"
    /\ UNCHANGED <<inputs, xlimits, ylimits, skip, frameState, n_writes>>

\* animate(frame_number), lines 135-153, followed by the writer grabbing the
\* frame: ani.save asks for the frames 0 .. n_frames-1 in this order.
Animate ==
    /\ pc = "animating"
    /\ frame_number < n_frames
    /\ LET idx == FrameIndex(frame_number, skip) IN
        /\ ~IndexFault(idx)
        /\ skip # 0
        /\ i' = idx
        /\ scatter1' = Trace(x1_len, idx, decay_time, skip)
        /\ scatter2' = Trace(Len(x2), idx, decay_time, skip)
        /\ emitted' = Append(emitted, idx)
    /\ calls' = Append(calls, frame_number)
    /\ frame_number' = frame_number + 1
    /\ UNCHANGED <<inputs, pc, xlimits, ylimits, total_frames, n_frames, skip,
                   n_writes, error>>

\* animate(frame_number) raising: a subscript out of range at lines 139-140,
\* or a zero slice step at line 145.  The exception leaves ani.save (line 159)
\* through the writer, and make_animation neither catches it nor cleans up:
\* whether the writer flushes the frames it already grabbed to save_path is
\* not decided by this code, so both outcomes are kept once a frame was
\* grabbed (matplotlib's PillowWriter does flush them).
AnimateFails ==
    /\ pc = "animating"
    /\ frame_number < n_frames
    /\ LET idx == FrameIndex(frame_number, skip) IN
        /\ i' = idx
        /\ \/ /\ IndexFault(idx)
              /\ error' = "IndexError"
           \/ /\ ~IndexFault(idx)
              /\ skip = 0
              /\ error' = "ValueError"
    /\ calls' = Append(calls, frame_number)
    /\ n_writes' \in IF emitted # <<>> THEN {n_writes, n_writes + 1} ELSE {n_writes}
    /\ pc' = "failed"
    /\ UNCHANGED <<inputs, xlimits, ylimits, total_frames, n_frames, skip,
                   frame_number, scatter1, scatter2, emitted>>

\* Line 159 after the last frame: the writer encodes the grabbed frames.
Save ==
    /\ pc = "animating"
    /\ frame_number = n_frames
    /\ n_writes' = n_writes + 1
    /\ pc' = "done"
    /\ UNCHANGED <<inputs, xlimits, ylimits, total_frames, n_frames, skip,
                   frameState, error>>

\* Line 159 when save_path cannot be written.
SaveFails ==
    /\ pc = "animating"
    /\ frame_number = n_frames
    /\ pc' = "failed"
    /\ error' = "OSError"
    /\ UNCHANGED <<inputs, xlimits, ylimits, total_frames, n_frames, skip,
                   frameState, n_writes>>

Next ==
    \/ SetLimits
    \/ SetLimitsFails
    \/ ComputeSkip
    \/ ComputeSkipFails
    \/ Animate
    \/ AnimateFails
    \/ Save
    \/ SaveFails

Spec == Init /\ [][Next]_vars

NextAxes ==
    \/ SetLimits
    \/ SetLimitsFails

SpecAxes == InitAxes /\ [][NextAxes]_vars

----------------------------------------------------------------------------
\* Properties.

Requested == fps * n_seconds

LengthsMatch ==
    /\ x1_len = t_len /\ y1_len = t_len
    /\ Len(x2) = t_len /\ Len(y2) = t_len

\* A call of animate has completed; the traces are those of the last one.
FrameDrawn == emitted # <<>>

LastIndex == emitted[Len(emitted)]

LastFrame == Len(emitted) - 1

\* C1: with matching series of length N >= 1 and 1 <= F = fps * n_seconds <= N,
\* the stride is floor(N / F), the frames grabbed are those of the sample
\* indices 0, s, 2s, ... in this order, each below N, no subscript faults, and
\* exactly F frames have been grabbed when the frame loop is over.  The stride
\* of the 1000-sample, 50 fps, 20 s scenario is 1 and its last index is 999.
C1_FrameIndices ==
    /\ Stride(1000, 50 * 20) = 1
    /\ FrameIndex(50 * 20 - 1, Stride(1000, 50 * 20)) = 999
    /\ (t_len >= 1 /\ Requested >= 1 /\ Requested <= t_len /\ LengthsMatch
        /\ pc \in {"animating", "done", "failed"})
       => /\ skip * Requested <= t_len
          /\ t_len < (skip + 1) * Requested
          /\ error \in {"none", "OSError"}
          /\ Len(emitted) = frame_number
          /\ Len(emitted) <= Requested
          /\ \A k \in 1..Len(emitted) :
                emitted[k] = (k - 1) * skip /\ emitted[k] < t_len
          /\ pc \in {"done", "failed"} => Len(emitted) = Requested

\* C1 witness: a finished call with stride 2 that grabbed samples 0 and 2.
C1_Witness ==
    /\ pc = "done" /\ LengthsMatch /\ Requested = 2
    /\ skip = 2 /\ emitted = <<0, 2>>

\* C2: after any completed frame with sample index i, each trace holds at
\* most decay_time samples, all at indices in [max(0, i - decay_time * skip), i).
C2_TraceWindow ==
    FrameDrawn =>
        \A sc \in {scatter1, scatter2} :
            /\ Len(sc) <= decay_time
            /\ \A j \in 1..Len(sc) :
                  /\ sc[j] >= 0
                  /\ sc[j] >= LastIndex - decay_time * skip
                  /\ sc[j] < LastIndex

\* C2 witness: frame 1 at stride 2 with decay_time 2, where i - decay_time * skip
\* is negative and the trace is the single sample 0.
C2_Witness ==
    /\ FrameDrawn /\ skip = 2 /\ decay_time = 2
    /\ LastIndex = 2 /\ scatter1 = <<0>> /\ scatter2 = <<0>>

\* C3: when fps * n_seconds exceeds len(t), the call ends with an explicit
\* Degenerate-Configuration error before animate is ever called: it does not
\* go on with a stride of 0.
C3_DegenerateRaises ==
    (Requested > t_len /\ pc \in {"animating", "done", "failed"}
     /\ xlimits # None)
    => /\ pc = "failed"
       /\ error = "DegenerateConfiguration"
       /\ calls = <<>>

\* C4: a call with an empty time array, or with a coordinate array whose
\* length differs from len(t), grabs no frame and does not complete.
C4_InvalidInputFailsFast ==
    (t_len = 0 \/ ~LengthsMatch) => (emitted = <<>> /\ pc # "done")

\* C5: whenever animate has been called the stride is at least 1, and a
\* request for more frames than samples runs with stride 1.
C5_StridePositive ==
    /\ calls # <<>> => skip >= 1
    /\ (pc = "animating" /\ n_frames > total_frames) => skip = 1

C8_Pad(pad, data) == IF pad # None THEN pad[1] ELSE Abs(NpMin(data)) \div 10

\* C8: without explicit limits, the limits are [min - pad, max + pad] with the
\* caller's padding whenever one was passed, 0 included.
C8_PaddedAutoLimits ==
    pc = "stride" =>
        /\ xlim = None =>
              xlimits = <<NpMin(x2) - C8_Pad(xpad, x2), NpMax(x2) + C8_Pad(xpad, x2)>>
        /\ ylim = None =>
              ylimits = <<NpMin(y2) - C8_Pad(ypad, y2), NpMax(y2) + C8_Pad(ypad, y2)>>

\* C9: animate is called for the frames 0, 1, 2, ... in this order, once each;
\* the artifact is written at most once, and only after all fps * n_seconds
\* frames were grabbed; a call that failed has written nothing.
C9_AllOrNothing ==
    /\ \A k \in 1..Len(calls) : calls[k] = k - 1
    /\ n_writes <= 1
    /\ n_writes > 0 => Len(emitted) = Requested
    /\ pc = "failed" => n_writes = 0

\* C10: after frame k the trace is the sequence of the sample indices of the
\* frames max(0, k - decay_time) .. k - 1, i.e. of the min(k, decay_time)
\* frames before it; it is empty after frame 0 and whenever decay_time = 0.
C10_TraceIsRecentFrames ==
    FrameDrawn =>
        LET k == LastFrame
            first == PyMax(0, k - decay_time)
            expected == [j \in 1..(k - first) |-> (first + j - 1) * skip]
        IN /\ scatter1 = expected
           /\ scatter2 = expected
           /\ Len(scatter1) = PyMin(k, decay_time)
           /\ \A j \in 1..Len(scatter1) : scatter1[j] = emitted[first + j]
           /\ k = 0 => scatter1 = <<>>
           /\ decay_time = 0 => scatter1 = <<>>

\* C10 witness: frame 2 at stride 1 with decay_time 1 shows only sample 1,
\* the index of frame 1.
C10_Witness ==
    /\ emitted = <<0, 1, 2>> /\ decay_time = 1
    /\ scatter1 = <<1>> /\ scatter2 = <<1>>

====
